---- MODULE Spec2Model ----
(***************************************************************************)
(* Memory admission pipeline of the repository: the Lexical Gate           *)
(* (core/memory_guard.py, MemoryGuard), the Relevance Oracle               *)
(* (agents/archivarius.py, Archivarius._deep_think), the admission funnel  *)
(* (Archivarius.learn) and the FAISS-backed store wrapper                  *)
(* (Archivarius._load_or_create_vectorstore, Archivarius._save_to_faiss).  *)
(*                                                                         *)
(* Text model.  A Python str is a sequence of whitespace-separated tokens; *)
(* a token is a non-empty sequence of atoms; an atom is an indivisible run *)
(* of characters (a word, a domain name, a code fence, a control           *)
(* character).  Substring tests of the code ("needle in text") become      *)
(* "some token holds the atom", regex searches of the shape  a WS+ b  become *)
(* "a token ends with a and the next one starts with b".                   *)
(*                                                                         *)
(* Scores are kept in tenths (5.0 is 50), so that 1.5 is an integer.       *)
(***************************************************************************)
EXTENDS Integers, Sequences, FiniteSets, TLC

VARIABLES
    disk,        \* the persisted index at faiss_path: [exists, docs]
    now,         \* the wall clock read by datetime.now()
    pc,          \* per pipeline instance: where its current call stands
    mem,         \* per pipeline instance: self.vectorstore (in-memory index)
    run,         \* per pipeline instance: the locals of its current learn call
    writers,     \* history: the instances that have written the index to disk
    lastWriter,  \* history: the instance whose save_local ran last (0: none)
    loadFailures,\* history: how often FAISS.load_local raised so far
    gText,       \* guard harness: the text handed to the MemoryGuard
    gOut,        \* guard harness: the last MemoryGuard call and its result
    brain,       \* the BrainAgent: its vectorstore and its last retrieval
    flow,        \* the Agartha job workflow: its graph state and seen_ids
    caller,      \* a caller of learn and the metadata mapping it holds
    gem          \* one get_embedding call: its loop and its API calls

vars ==
    <<disk, now, pc, mem, run, writers, lastWriter, loadFailures, gText, gOut,
      brain, flow, caller, gem>>

(***************************************************************************)
(* Bounds                                                                  *)
(***************************************************************************)
MaxLen == 3

MaxClock == 2

MaxLoadFailures == 1

MaxDocs == 3

\* two pipeline instances (two Archivarius objects, possibly of two processes)
\* sharing one faiss_path
Inst == {1, 2}

(***************************************************************************)
(* Strings                                                                 *)
(***************************************************************************)
\* the control character U+0007
BEL == "<BEL>"

\* the code-fence marker, three backquotes
FENCE == "<FENCE>"

Tok_GitHubKarpathy == <<"GitHub.com", "/", "Karpathy">>

Tok_Arxiv == <<"ARXIV.ORG">>

Tok_CudaBel == <<"cuda", BEL>>

Tok_Fence == <<FENCE>>

Tok_Dollar == <<"$">>

Tok_Passive == <<"passive">>

Tok_Income == <<"Income">>

Tok_Hello == <<"hello">>

Vocabulary ==
    { Tok_GitHubKarpathy, Tok_Arxiv, Tok_CudaBel, Tok_Fence,
      Tok_Dollar, Tok_Passive, Tok_Income, Tok_Hello }

RECURSIVE SeqsUpTo(_, _)
SeqsUpTo(S, n) ==
    IF n = 0 THEN { <<>> }
    ELSE LET shorter == SeqsUpTo(S, n - 1)
         IN  shorter \cup { Append(s, x) : s \in shorter, x \in S }

Texts == SeqsUpTo(Vocabulary, MaxLen)

\* str.lower() on one atom
LowerAtom(a) ==
    CASE a = "GitHub.com" -> "github.com"
      [] a = "Karpathy"   -> "karpathy"
      [] a = "ARXIV.ORG"  -> "arxiv.org"
      [] a = "Income"     -> "income"
      [] a = "For Hire"   -> "for hire"
      [] OTHER            -> a

\* str.lower()
Lower(text) ==
    [k \in 1..Len(text) |-> [j \in 1..Len(text[k]) |-> LowerAtom(text[k][j])]]

\* needle in text
Contains(text, needle) ==
    \E k \in 1..Len(text) : \E j \in 1..Len(text[k]) : text[k][j] = needle

\* re.search of a pattern  a WHITESPACE+ b  in text
SearchPair(text, a, b) ==
    \E k \in 1..(Len(text) - 1) :
        /\ Len(text[k]) > 0 /\ Len(text[k + 1]) > 0
        /\ text[k][Len(text[k])] = a
        /\ text[k + 1][1] = b

\* the atom starts with a character of [a-z]
StartsLowerAZ(a) == a \in {"cuda", "passive", "hello", "income", "github.com",
                           "karpathy", "arxiv.org"}

\* the atom starts with  [A-Z]:
StartsDrive(a) == a \in {"C:", "D:"}

(***************************************************************************)
(* MemoryGuard (core/memory_guard.py)                                      *)
(***************************************************************************)
blacklist_patterns ==
    << <<"chatgpt", "wrapper">>, <<"passive", "income">>,
       <<"course", "selling">>, <<"no-code", "builder">>,
       <<"crypto", "pump">> >>

authority_names == <<"karpathy", "lecun", "altman", "hassabis">>

relevance_keywords == <<"rtx 4090", "gsoc", "optimization", "cuda", "agentic">>

trusted_domains == <<"github.com", "arxiv.org", "huggingface.co">>

BaseScore == 50

TrustedDomainBonus == 20

CodeBlockBonus == 15

AuthorityBonus == 20

KeywordBonus == 20

ScoreCap == 100

Min(a, b) == IF a < b THEN a ELSE b

\* for pattern, _ in self.blacklist_patterns: if re.search(...): return True
RECURSIVE AnyPatternFound(_, _)
AnyPatternFound(patterns, text_lower) ==
    IF patterns = <<>> THEN FALSE
    ELSE IF SearchPair(text_lower, Head(patterns)[1], Head(patterns)[2])
         THEN TRUE
         ELSE AnyPatternFound(Tail(patterns), text_lower)

is_garbage(text) ==
    LET text_lower == Lower(text)
    IN  AnyPatternFound(blacklist_patterns, text_lower)

\* faulty variant: the loop counts every needle found (no break)
RECURSIVE EveryHitBonus(_, _, _)
EveryHitBonus(needles, text_lower, bonus) ==
    IF needles = <<>> THEN 0
    ELSE (IF Contains(text_lower, Head(needles)) THEN bonus ELSE 0)
         + EveryHitBonus(Tail(needles), text_lower, bonus)

\* for needle in needles: if needle in text_lower: score += bonus; break
RECURSIVE FirstHitBonus(_, _, _)
FirstHitBonus(needles, text_lower, bonus) ==
    IF needles = <<>> THEN 0
    ELSE IF Contains(text_lower, Head(needles))
         THEN bonus
         ELSE FirstHitBonus(Tail(needles), text_lower, bonus)

\* re.search of  DOLLAR WS+ [a-z]+  |  GT WS+ [A-Z]:  |  C: BACKSLASH BACKSLASH
TerminalLog(text) ==
    \/ \E k \in 1..(Len(text) - 1) :
          /\ Len(text[k]) > 0 /\ Len(text[k + 1]) > 0
          /\ text[k][Len(text[k])] = "$"
          /\ StartsLowerAZ(text[k + 1][1])
    \/ \E k \in 1..(Len(text) - 1) :
          /\ Len(text[k]) > 0 /\ Len(text[k + 1]) > 0
          /\ text[k][Len(text[k])] = ">"
          /\ StartsDrive(text[k + 1][1])
    \/ Contains(text, "C:<BACKSLASH><BACKSLASH>")

\* faulty variant of calculate_score: bonuses counted per trigger
calculate_score_nobreak(text, metadata) ==
    LET text_lower == Lower(text)
    IN  Min(BaseScore
              + EveryHitBonus(trusted_domains, text_lower, TrustedDomainBonus)
              + (IF Contains(text, FENCE) \/ TerminalLog(text)
                 THEN CodeBlockBonus ELSE 0)
              + EveryHitBonus(authority_names, text_lower, AuthorityBonus)
              + EveryHitBonus(relevance_keywords, text_lower, KeywordBonus),
            ScoreCap)

\* faulty variant of calculate_score: the result drifts with what the
\* pipeline has stored so far
calculate_score_drifting(text, metadata) ==
    LET text_lower == Lower(text)
    IN  Min(BaseScore + (IF Len(disk.docs) > 1 THEN KeywordBonus ELSE 0)
              + FirstHitBonus(trusted_domains, text_lower, TrustedDomainBonus)
              + (IF Contains(text, FENCE) \/ TerminalLog(text)
                 THEN CodeBlockBonus ELSE 0)
              + FirstHitBonus(authority_names, text_lower, AuthorityBonus)
              + FirstHitBonus(relevance_keywords, text_lower, KeywordBonus),
            ScoreCap)

calculate_score(text, metadata) ==
    LET text_lower == Lower(text)
    IN  Min(BaseScore
              + FirstHitBonus(trusted_domains, text_lower, TrustedDomainBonus)
              + (IF Contains(text, FENCE) \/ TerminalLog(text)
                 THEN CodeBlockBonus ELSE 0)
              + FirstHitBonus(authority_names, text_lower, AuthorityBonus)
              + FirstHitBonus(relevance_keywords, text_lower, KeywordBonus),
            ScoreCap)

evaluate(text, metadata) ==
    IF is_garbage(text)
    THEN [passed |-> FALSE, score |-> 0, reason |-> "Blocked by blacklist"]
    ELSE [passed |-> TRUE, score |-> calculate_score(text, metadata),
          reason |-> "Evidence score"]

(***************************************************************************)
(* Python dicts                                                            *)
(***************************************************************************)
EmptyDict == [k \in {} |-> TRUE]

\* {**m, **upd}
Merge(m, upd) ==
    [k \in DOMAIN m \cup DOMAIN upd |-> IF k \in DOMAIN upd THEN upd[k] ELSE m[k]]

\* m.get(key, default)
Get(m, key, default) == IF key \in DOMAIN m THEN m[key] ELSE default

(***************************************************************************)
(* utils.sanitize_for_grpc                                                 *)
(***************************************************************************)
\* unicodedata.category(char).startswith('C'); newline, CR and tab are kept
\* and are the whitespace between tokens here
IsControl(a) == a = BEL

remove_control_characters(text) ==
    [k \in 1..Len(text) |-> SelectSeq(text[k], LAMBDA a : ~IsControl(a))]

\* the replacement tables hold Greek letters, sub/superscripts and symbols;
\* no atom of the vocabulary is among them
transliterate_unicode(text) == text

\* NFC normalisation and the encode/decode pass leave ASCII atoms as they are
sanitize_text(text) == text

sanitize_for_grpc(text) ==
    sanitize_text(transliterate_unicode(remove_control_characters(text)))

(***************************************************************************)
(* Relevance oracle: Archivarius._deep_think                               *)
(***************************************************************************)
Out_RELEVANT == << <<"RELEVANT">> >>

Out_relevant == << <<"relevant">> >>

Out_NOISE == << <<"NOISE">> >>

Out_Irrelevant == << <<"Ir", "relevant">> >>

Out_Empty == <<>>

BackendOutputs == {Out_RELEVANT, Out_relevant, Out_NOISE, Out_Irrelevant, Out_Empty}

\* what chain.invoke does: it returns a string or raises (connection error,
\* timeout raised by the client, parser error)
BackendOutcomes ==
    {[raised |-> FALSE, out |-> o] : o \in BackendOutputs}
      \cup {[raised |-> TRUE, out |-> Out_Empty]}

NoBackend == [raised |-> FALSE, out |-> << <<"<not called>">> >>]

UpperAtom(a) ==
    CASE a = "relevant" -> "RELEVANT"
      [] a = "Ir"       -> "IR"
      [] OTHER          -> a

\* .strip().upper()
StripUpper(text) ==
    [k \in 1..Len(text) |-> [j \in 1..Len(text[k]) |-> UpperAtom(text[k][j])]]

\* faulty variant: a backend failure is taken as RELEVANT
deep_think_fail_open(outcome) ==
    IF outcome.raised THEN "RELEVANT"
    ELSE IF Contains(StripUpper(outcome.out), "RELEVANT") THEN "RELEVANT"
         ELSE "NOISE"

\* faulty variant: the output is searched as it came, without upper()
deep_think_case_sensitive(outcome) ==
    IF outcome.raised THEN "NOISE"
    ELSE IF Contains(outcome.out, "RELEVANT") THEN "RELEVANT" ELSE "NOISE"

\* try: result = chain.invoke(...).strip().upper() ... except: return "NOISE"
deep_think(outcome) ==
    IF outcome.raised THEN "NOISE"
    ELSE LET result == StripUpper(outcome.out)
         IN  IF Contains(result, "RELEVANT") THEN "RELEVANT" ELSE "NOISE"

(***************************************************************************)
(* Documents and the store                                                 *)
(***************************************************************************)
SentinelText ==
    << <<"Archivarius">>, <<"Active">>, <<"Memory">>, <<"System">>,
       <<"initialized.">> >>

SentinelScore == 100

dummy_doc(t) ==
    [page_content |-> SentinelText,
     metadata |-> [source |-> "system", timestamp |-> t,
                   score |-> SentinelScore, priority |-> "system"]]

AdmissionThreshold == 70

PriorityTag == "#Priority_Alpha"

\* learn, lines 281-282
\* faulty variant: the stamp is put before the caller's tags
stamp_prepend(metadata) ==
    Merge(metadata, [tags |-> <<PriorityTag>> \o Get(metadata, "tags", <<>>),
                     priority |-> "alpha"])

\* faulty variant: the tag is added only where it is missing
stamp_once(metadata) ==
    Merge(metadata,
          [tags |-> IF \E k \in DOMAIN Get(metadata, "tags", <<>>) :
                          Get(metadata, "tags", <<>>)[k] = PriorityTag
                    THEN Get(metadata, "tags", <<>>)
                    ELSE Get(metadata, "tags", <<>>) \o <<PriorityTag>>,
           priority |-> "alpha"])

stamp(metadata) ==
    Merge(metadata, [tags |-> Get(metadata, "tags", <<>>) \o <<PriorityTag>>,
                     priority |-> "alpha"])

\* faulty variant: the caller's values win over the pipeline's
make_doc_caller_wins(text, metadata, score, t) ==
    [page_content |-> sanitize_for_grpc(text),
     metadata |-> Merge([score |-> score, timestamp |-> t,
                         source |-> "archivarius"], metadata)]

\* _save_to_faiss, lines 196-211: the Document it builds
make_doc(text, metadata, score, t) ==
    [page_content |-> sanitize_for_grpc(text),
     metadata |-> Merge(metadata, [score |-> score, timestamp |-> t,
                                   source |-> "archivarius"])]

\* faulty variant: the existence test never sees the index
index_exists_never(onDisk) == FALSE

\* line 105: faiss_path.exists() and (faiss_path / "index.faiss").exists()
index_exists(onDisk) == onDisk.exists

\* faulty variant: loading seeds the index with a sentinel again
load_local_reseed(onDisk) == <<dummy_doc(0)>> \o onDisk.docs

\* FAISS.load_local(path, ...), when it does not raise
load_local(onDisk) == onDisk.docs

\* faulty variant: a failed load ends the constructor with the exception
after_load_error_raise == "failed"

\* lines 115-116: except Exception: a warning, then on to the creation
after_load_error == "create"

\* FAISS.save_local(path): the whole in-memory index replaces the files
\* faulty variant: nothing is written
save_local_skipped(index, onDisk) == onDisk

\* faulty variant: the newest document is appended to what is on disk
save_local_append(index, onDisk) ==
    [exists |-> TRUE, docs |-> onDisk.docs \o <<index[Len(index)]>>]

save_local(index, onDisk) == [exists |-> TRUE, docs |-> index]

(***************************************************************************)
(* Inputs of learn                                                         *)
(***************************************************************************)
\* blacklisted, and its evidence score would be 7.0
Text_Spam == <<Tok_Passive, Tok_Income, Tok_CudaBel>>

\* no trigger at all: 5.0
Text_Plain == <<Tok_Hello>>

\* a code fence only: 6.5
Text_CodeOnly == <<Tok_Fence, Tok_Hello>>

\* one trusted domain, upper case: exactly 7.0
Text_Arxiv == <<Tok_Arxiv>>

\* domain, authority, keyword and fence: 12.5, capped; holds a control char
Text_Rich == <<Tok_GitHubKarpathy, Tok_CudaBel, Tok_Fence>>

Candidates == {Text_Spam, Text_Plain, Text_CodeOnly, Text_Arxiv, Text_Rich}

Meta_Test == [source |-> "test"]

Meta_Job ==
    [source |-> "agartha_langgraph", score |-> 30, timestamp |-> -1,
     tags |-> <<"job">>, priority |-> "low", type |-> "approved_job"]

CallerDicts == {EmptyDict, Meta_Test, Meta_Job}

\* the metadata argument: None (the default) or a dict
MetaArgs ==
    {[isNone |-> TRUE, dict |-> EmptyDict]}
      \cup {[isNone |-> FALSE, dict |-> d] : d \in CallerDicts}

IdleRun ==
    [text |-> <<>>, metadata |-> EmptyDict, backend |-> NoBackend,
     think_result |-> "none", score |-> -1, ret |-> "none",
     verdict |-> "none", steps |-> <<>>,
     query |-> <<>>, k |-> -1, recalled |-> <<>>]

(***************************************************************************)
(* Initial state: no index at faiss_path, no pipeline constructed          *)
(***************************************************************************)
NoGuardCall ==
    [op |-> "none", raised |-> FALSE, garbage |-> FALSE, score |-> -1,
     passed |-> FALSE]

PipeInit ==
    /\ disk = [exists |-> FALSE, docs |-> <<>>]
    /\ now = 0
    /\ pc = [i \in Inst |-> "new"]
    /\ mem = [i \in Inst |-> <<>>]
    /\ run = [i \in Inst |-> IdleRun]
    /\ writers = {}
    /\ lastWriter = 0
    /\ loadFailures = 0

(***************************************************************************)
(* Agartha job workflow: jobs and graph state (core/graph.py)              *)
(***************************************************************************)
\* a job dict as the scout returns it; evidence_score and score are -1 and
\* bid_draft is FALSE while the key is absent
Job(id, title, description) ==
    [id |-> id, title |-> title, description |-> description,
     evidence_score |-> -1, score |-> -1, bid_draft |-> FALSE]

\* the jobs of test_agartha_archivarius.py, and a freelancer's own advert
Job_Spam == Job("spam-1", <<Tok_Hello>>, Text_Spam)

Job_LowQ == Job("lowq-1", <<Tok_Hello>>, Text_Plain)

Job_Quality == Job("quality-1", <<Tok_Hello>>, Text_Rich)

Job_ForHire == Job("hire-1", << <<"[", "For Hire", "]">> >>, Text_Rich)

FeedJobs == <<Job_Spam, Job_LowQ, Job_Quality, Job_ForHire>>

JobIds == {FeedJobs[k].id : k \in 1..Len(FeedJobs)}

\* what a feed can hold at one fetch
Feeds == {SelectSeq(FeedJobs, LAMBDA job : job.id \in ids) : ids \in SUBSET JobIds}

\* the graph state of one app.invoke, the process-wide seen_ids, and history:
\* brain_runs / alert_runs count the feed runs that sent the id to the Brain /
\* alerted it, raised_runs the feed runs that ended in the except branch
NoFlow ==
    [node |-> "idle", trace |-> <<>>, available |-> TRUE,
     seen_ids |-> {}, state_seen_ids |-> {},
     fetched_jobs |-> <<>>, relevant_jobs |-> <<>>, filtered_jobs |-> <<>>,
     analyzed_jobs |-> <<>>, approved_jobs |-> <<>>,
     learned |-> <<>>, alerted |-> <<>>, runs |-> 0, raised_runs |-> 0,
     brain_runs |-> [id \in JobIds |-> 0],
     alert_runs |-> [id \in JobIds |-> 0]]

\* a caller that holds one metadata mapping and hands it (or nothing) to
\* learn, call after call; last is its latest call, with the mapping as it
\* was before the call
NoLearn ==
    [text |-> <<>>, passed |-> "none", before |-> EmptyDict, ret |-> "none",
     verdict |-> "none"]

NoCaller == [metadata |-> EmptyDict, calls |-> 0, commits |-> 0, last |-> NoLearn]

\* get_embedding before its call: the arguments, the loop variable, the API
\* calls made (calls: how each one ended; classes: the branch taken for it),
\* the sleeps and the result
NoGem ==
    [pc |-> "idle", text_empty |-> FALSE, key |-> TRUE, max_retries |-> 0,
     attempt |-> 0, calls |-> <<>>, classes |-> <<>>, sleeps |-> <<>>,
     ret |-> "none", card |-> "none"]

\* BrainAgent.__init__, line 34: self.vectorstore = None
NewBrain ==
    [pc |-> "new", vectorstore |-> [loaded |-> FALSE, docs |-> <<>>],
     query |-> <<>>, failed |-> FALSE, out |-> <<>>]

Init ==
    /\ PipeInit
    /\ gText = <<>>
    /\ gOut = NoGuardCall
    /\ brain = NewBrain
    /\ flow = NoFlow
    /\ caller = NoCaller
    /\ gem = NoGem

(***************************************************************************)
(* Archivarius.__init__ / _load_or_create_vectorstore                      *)
(***************************************************************************)
\* lines 103-116: the existence test and FAISS.load_local, which returns the
\* persisted index or raises (unreadable index)
ConstructBegin(i) ==
    /\ pc[i] \in {"new", "ready"}
    /\ \/ /\ index_exists(disk)
          /\ pc' = [pc EXCEPT ![i] = "ready"]
          /\ mem' = [mem EXCEPT ![i] = load_local(disk)]
          /\ UNCHANGED loadFailures
       \/ /\ index_exists(disk)
          /\ loadFailures < MaxLoadFailures
          /\ pc' = [pc EXCEPT ![i] = after_load_error]
          /\ mem' = [mem EXCEPT ![i] = <<>>]
          /\ loadFailures' = loadFailures + 1
       \/ /\ ~index_exists(disk)
          /\ pc' = [pc EXCEPT ![i] = "create"]
          /\ mem' = [mem EXCEPT ![i] = <<>>]
          /\ UNCHANGED loadFailures
    /\ run' = [run EXCEPT ![i] = IdleRun]
    /\ UNCHANGED <<disk, now, writers, lastWriter, gText, gOut, brain, flow, caller, gem>>

\* lines 118-136: mkdir, FAISS.from_documents([dummy_doc]), save_local
ConstructCreate(i) ==
    /\ pc[i] = "create"
    /\ LET vectorstore == <<dummy_doc(now)>>
       IN  /\ mem' = [mem EXCEPT ![i] = vectorstore]
           /\ disk' = save_local(vectorstore, disk)
    /\ now' = now + 1
    /\ pc' = [pc EXCEPT ![i] = "ready"]
    /\ writers' = writers \cup {i}
    /\ lastWriter' = i
    /\ UNCHANGED <<run, loadFailures, gText, gOut, brain, flow, caller, gem>>

(***************************************************************************)
(* Archivarius.learn                                                       *)
(***************************************************************************)
\* faulty variants of the three branch decisions of learn
after_blacklist_ignored(garbage) == "think"

after_blacklist_naive(garbage) == IF garbage THEN "done" ELSE "score"

after_blacklist(garbage) == IF garbage THEN "done" ELSE "think"

after_think_ignored(think_result) == "score"

after_think(think_result) == IF think_result = "NOISE" THEN "done" ELSE "score"

\* faulty variant: the threshold is 6.5
after_score_lenient(score) == IF score < 65 THEN "done" ELSE "commit"

after_score_strict(score) == IF score <= AdmissionThreshold THEN "done" ELSE "commit"

after_score(score) == IF score < AdmissionThreshold THEN "done" ELSE "commit"

\* lines 221-243: the call; metadata defaults to a fresh dict
LearnCall(i) ==
    /\ pc[i] = "ready"
    /\ now < MaxClock
    /\ \E text \in Candidates, m \in MetaArgs :
          run' = [run EXCEPT ![i] =
                    [IdleRun EXCEPT !.text = text,
                                    !.metadata = IF m.isNone THEN EmptyDict
                                                 ELSE m.dict]]
    /\ pc' = [pc EXCEPT ![i] = "guard"]
    /\ UNCHANGED <<disk, now, mem, writers, lastWriter, loadFailures, gText, gOut, brain, flow, caller, gem>>

\* lines 245-253: STEP 1, the blacklist
BlacklistStep(i) ==
    /\ pc[i] = "guard"
    /\ LET garbage == is_garbage(run[i].text)
           next == after_blacklist(garbage)
       IN  /\ pc' = [pc EXCEPT ![i] = next]
           /\ run' = [run EXCEPT
                        ![i].steps = Append(@, "blacklist"),
                        ![i].ret = IF next = "done" THEN "False" ELSE @,
                        ![i].verdict = IF next = "done" THEN "blacklist" ELSE @]
    /\ UNCHANGED <<disk, now, mem, writers, lastWriter, loadFailures, gText, gOut, brain, flow, caller, gem>>

\* lines 255-264: STEP 2, one call of the generation backend
DeepThinkStep(i) ==
    /\ pc[i] = "think"
    /\ \E outcome \in BackendOutcomes :
          LET think_result == deep_think(outcome)
              next == after_think(think_result)
          IN  /\ pc' = [pc EXCEPT ![i] = next]
              /\ run' = [run EXCEPT
                           ![i].steps = Append(@, "oracle"),
                           ![i].backend = outcome,
                           ![i].think_result = think_result,
                           ![i].ret = IF next = "done" THEN "False" ELSE @,
                           ![i].verdict = IF next = "done" THEN "noise" ELSE @]
    /\ UNCHANGED <<disk, now, mem, writers, lastWriter, loadFailures, gText, gOut, brain, flow, caller, gem>>

\* line 170 with line 57: ChatOllama is built from model and temperature
\* only, no timeout is given to the client, and _deep_think sets none around
\* chain.invoke.  A backend that accepts the request and never answers leaves
\* the call waiting: nothing in the code wakes the caller up again.
DeepThinkBlocks(i) ==
    /\ pc[i] = "think"
    /\ pc' = [pc EXCEPT ![i] = "blocked"]
    /\ run' = [run EXCEPT ![i].steps = Append(@, "oracle")]
    /\ UNCHANGED <<disk, now, mem, writers, lastWriter, loadFailures, gText, gOut, brain, flow, caller, gem>>

\* lines 266-275: STEP 3, the evidence score against the threshold
ScoreStep(i) ==
    /\ pc[i] = "score"
    /\ LET score == calculate_score(run[i].text, run[i].metadata)
           next == after_score(score)
       IN  /\ pc' = [pc EXCEPT ![i] = next]
           /\ run' = [run EXCEPT
                        ![i].steps = Append(@, "score"),
                        ![i].score = score,
                        ![i].ret = IF next = "done" THEN "False" ELSE @,
                        ![i].verdict = IF next = "done" THEN "low_score" ELSE @]
    /\ UNCHANGED <<disk, now, mem, writers, lastWriter, loadFailures, gText, gOut, brain, flow, caller, gem>>

\* add_documents (line 214) embeds the text before it adds anything; neither
\* _save_to_faiss nor learn has a try around it, so the exception of the
\* embedding leaves learn
on_embedding_error == "raised"

\* save_local (line 217) writes the files of the index; a write that fails
\* (disk full, no permission) raises, and the exception leaves learn as well
on_save_error == "raised"

\* lines 277-290 and _save_to_faiss: STEP 4, stamp, add_documents, save_local
CommitStep(i) ==
    /\ pc[i] = "commit"
    /\ LET metadata == stamp(run[i].metadata)
           doc == make_doc(run[i].text, metadata, run[i].score, now)
           vectorstore == Append(mem[i], doc)
       IN  \/ /\ mem' = [mem EXCEPT ![i] = vectorstore]
              /\ disk' = save_local(vectorstore, disk)
              /\ run' = [run EXCEPT
                           ![i].steps = Append(@, "insert"),
                           ![i].metadata = metadata,
                           ![i].ret = "True",
                           ![i].verdict = "accepted"]
              /\ now' = now + 1
              /\ writers' = writers \cup {i}
              /\ lastWriter' = i
           \/ \* the embedding of the document fails inside add_documents
              /\ run' = [run EXCEPT
                           ![i].metadata = metadata,
                           ![i].ret = on_embedding_error,
                           ![i].verdict = "embedding_error"]
              /\ UNCHANGED <<mem, disk, now, writers, lastWriter>>
           \/ \* add_documents has added the document (line 214), then
              \* save_local (line 217) fails: nothing catches it either
              /\ mem' = [mem EXCEPT ![i] = vectorstore]
              /\ run' = [run EXCEPT
                           ![i].metadata = metadata,
                           ![i].ret = on_save_error,
                           ![i].verdict = "save_error"]
              /\ now' = now + 1
              /\ UNCHANGED <<disk, writers, lastWriter>>
    /\ pc' = [pc EXCEPT ![i] = "done"]
    /\ UNCHANGED <<loadFailures, gText, gOut, brain, flow, caller, gem>>

\* the caller has the return value; the instance is free for the next call
Return(i) ==
    /\ pc[i] = "done"
    /\ pc' = [pc EXCEPT ![i] = "ready"]
    /\ run' = [run EXCEPT ![i] = IdleRun]
    /\ UNCHANGED <<disk, now, mem, writers, lastWriter, loadFailures, gText, gOut, brain, flow, caller, gem>>

(***************************************************************************)
(* Archivarius.recall                                                      *)
(***************************************************************************)
RecallKs == {0, 1, 3}

\* a stored text that is its own sanitised form, and the sanitised form
\* under which a text with a control character is stored
Queries == {Text_Arxiv, sanitize_for_grpc(Text_Rich)}

\* the embedding is a function of the text alone: a stored text equal to the
\* query lies at distance 0, any other text at a positive distance
distance(query, page_content) == IF page_content = query THEN 0 ELSE 1

\* faulty variant: the farthest documents come first
similarity_search_farthest(index, query, k) ==
    LET near == SelectSeq(index, LAMBDA d : distance(query, d.page_content) = 0)
        far == SelectSeq(index, LAMBDA d : distance(query, d.page_content) # 0)
    IN  SubSeq(far \o near, 1, Min(k, Len(index)))

\* vectorstore.similarity_search(query, k=k): the k nearest documents of the
\* index (all of them when it holds fewer), nearest first; reads only
similarity_search(index, query, k) ==
    LET near == SelectSeq(index, LAMBDA d : distance(query, d.page_content) = 0)
        far == SelectSeq(index, LAMBDA d : distance(query, d.page_content) # 0)
    IN  SubSeq(near \o far, 1, Min(k, Len(index)))

\* lines 309-317: one "[Memory n] (Score, Priority) content" entry for each
\* result, in the order of the results
format_memories(results) ==
    [n \in 1..Len(results) |->
        [n |-> n,
         score |-> Get(results[n].metadata, "score", "N/A"),
         priority |-> Get(results[n].metadata, "priority", "N/A"),
         content |-> sanitize_for_grpc(results[n].page_content)]]

\* lines 303-323: the search and the formatting are inside one try; an
\* exception of the search (the embedding of the query fails) gives the error
\* string, no result gives the sentinel string
Recall(i) ==
    /\ pc[i] = "ready"
    /\ \E query \in Queries, k \in RecallKs, failed \in BOOLEAN :
          LET results == similarity_search(mem[i], query, k)
          IN  run' = [run EXCEPT ![i] =
                        [IdleRun EXCEPT
                           !.verdict = "recall",
                           !.query = query,
                           !.k = k,
                           !.recalled = IF failed THEN <<>>
                                        ELSE format_memories(results),
                           !.ret = IF failed THEN "Error recalling memories"
                                   ELSE IF results = <<>>
                                        THEN "No relevant memories found."
                                        ELSE "memories"]]
    /\ pc' = [pc EXCEPT ![i] = "done"]
    /\ UNCHANGED <<disk, now, mem, writers, lastWriter, loadFailures, gText, gOut, brain, flow, caller, gem>>

Next ==
    \E i \in Inst :
        \/ ConstructBegin(i)
        \/ ConstructCreate(i)
        \/ LearnCall(i)
        \/ BlacklistStep(i)
        \/ DeepThinkStep(i)
        \/ DeepThinkBlocks(i)
        \/ ScoreStep(i)
        \/ CommitStep(i)
        \/ Recall(i)
        \/ Return(i)

Spec == Init /\ [][Next]_vars

\* the steps inside one learn call: once learn is called, the interpreter
\* keeps executing it, and a backend call that was sent is either answered
\* (or fails) or is never answered
LearnStep(i) ==
    \/ BlacklistStep(i)
    \/ DeepThinkStep(i)
    \/ DeepThinkBlocks(i)
    \/ ScoreStep(i)
    \/ CommitStep(i)

FairSpec == Spec /\ \A i \in Inst : WF_vars(LearnStep(i))

(***************************************************************************)
(* MemoryGuard called directly, on every text up to MaxLen tokens          *)
(***************************************************************************)
\* Python's None handed over where a str is expected: a reserved value that
\* is no text of the vocabulary
None == << <<"<None>">> >>

\* text.lower() (memory_guard.py lines 49 and 76): a str has the method, None
\* has not, and the call raises AttributeError
has_lower(text) == text # None

GuardInit ==
    /\ PipeInit
    /\ gText \in Texts \cup {None}
    /\ gOut = NoGuardCall
    /\ brain = NewBrain
    /\ flow = NoFlow
    /\ caller = NoCaller
    /\ gem = NoGem

GuardIsGarbage ==
    /\ gOut' = IF has_lower(gText)
               THEN [NoGuardCall EXCEPT !.op = "is_garbage",
                                        !.garbage = is_garbage(gText)]
               ELSE [NoGuardCall EXCEPT !.op = "is_garbage", !.raised = TRUE]
    /\ UNCHANGED <<gText, disk, now, pc, mem, run, writers, lastWriter, loadFailures,
                 brain, flow, caller, gem>>

GuardCalculateScore ==
    /\ gOut' = IF has_lower(gText)
               THEN [NoGuardCall EXCEPT
                       !.op = "calculate_score",
                       !.score = calculate_score(gText, EmptyDict)]
               ELSE [NoGuardCall EXCEPT !.op = "calculate_score",
                                        !.raised = TRUE]
    /\ UNCHANGED <<gText, disk, now, pc, mem, run, writers, lastWriter, loadFailures,
                 brain, flow, caller, gem>>

\* evaluate calls is_garbage first (line 119), which raises on None
GuardEvaluate ==
    /\ LET r == evaluate(gText, EmptyDict)
       IN  gOut' = IF has_lower(gText)
                   THEN [NoGuardCall EXCEPT !.op = "evaluate",
                                            !.passed = r.passed,
                                            !.score = r.score]
                   ELSE [NoGuardCall EXCEPT !.op = "evaluate",
                                            !.raised = TRUE]
    /\ UNCHANGED <<gText, disk, now, pc, mem, run, writers, lastWriter, loadFailures,
                 brain, flow, caller, gem>>

GuardNext == GuardIsGarbage \/ GuardCalculateScore \/ GuardEvaluate

GuardSpec == GuardInit /\ [][GuardNext]_vars

(***************************************************************************)
(* BrainAgent (agartha gateopener/src/agents/brain.py) reading an index    *)
(***************************************************************************)
\* the documents an index on disk may hold: the sentinel and records that
\* learn stored
BrainDocs ==
    { dummy_doc(0),
      make_doc(Text_Arxiv, stamp(EmptyDict), 70, 1),
      make_doc(Text_Rich, stamp(Meta_Job), 100, 2) }

\* what the BrainAgent may find at its paths: nothing, or an index of up to
\* MaxDocs documents (an index without documents can only have been left by
\* another tool)
DiskImages ==
    {[exists |-> FALSE, docs |-> <<>>]}
      \cup {[exists |-> TRUE, docs |-> d] : d \in SeqsUpTo(BrainDocs, MaxDocs)}

BrainInit ==
    /\ disk \in DiskImages
    /\ now = 0
    /\ pc = [i \in Inst |-> "new"]
    /\ mem = [i \in Inst |-> <<>>]
    /\ run = [i \in Inst |-> IdleRun]
    /\ writers = {}
    /\ lastWriter = 0
    /\ loadFailures = 0
    /\ gText = <<>>
    /\ gOut = NoGuardCall
    /\ brain = NewBrain
    /\ flow = NoFlow
    /\ caller = NoCaller
    /\ gem = NoGem

\* _load_memory, lines 38-81: no path found: return; the embeddings or
\* FAISS.load_local raise: the except logs; self.vectorstore stays None
BrainLoadMemory ==
    /\ brain.pc = "new"
    /\ \/ /\ index_exists(disk)
          /\ brain' = [brain EXCEPT
                          !.pc = "ready",
                          !.vectorstore = [loaded |-> TRUE,
                                           docs |-> load_local(disk)]]
       \/ /\ index_exists(disk)
          /\ brain' = [brain EXCEPT !.pc = "ready"]
       \/ /\ ~index_exists(disk)
          /\ brain' = [brain EXCEPT !.pc = "ready"]
    /\ UNCHANGED <<disk, now, pc, mem, run, writers, lastWriter, loadFailures,
                   gText, gOut, flow, caller, gem>>

BrainK == 2

\* faulty variant: every document of the index is returned
retrieve_context_all(vectorstore, query, failed) ==
    IF ~vectorstore.loaded \/ failed THEN <<>>
    ELSE LET docs == similarity_search(vectorstore.docs, query,
                                       Len(vectorstore.docs))
         IN  [n \in 1..Len(docs) |-> sanitize_for_grpc(docs[n].page_content)]

\* _retrieve_context, lines 83-97; the returned string is the sequence of its
\* lines "- content", the empty string is the empty sequence
retrieve_context(vectorstore, query, failed) ==
    IF ~vectorstore.loaded THEN <<>>
    ELSE IF failed THEN <<>>
    ELSE LET docs == similarity_search(vectorstore.docs, query, BrainK)
         IN  IF docs = <<>> THEN <<>>
             ELSE [n \in 1..Len(docs) |->
                      sanitize_for_grpc(docs[n].page_content)]

\* analyze_job, line 108: the job description is the query
BrainQueries == {Text_Arxiv, Text_Plain}

BrainRetrieveContext ==
    /\ brain.pc = "ready"
    /\ \E query \in BrainQueries, failed \in BOOLEAN :
          brain' = [brain EXCEPT
                      !.query = query,
                      !.failed = failed /\ brain.vectorstore.loaded,
                      !.out = retrieve_context(brain.vectorstore, query, failed)]
    /\ UNCHANGED <<disk, now, pc, mem, run, writers, lastWriter, loadFailures,
                   gText, gOut, flow, caller, gem>>

BrainNext == BrainLoadMemory \/ BrainRetrieveContext

BrainSpec == BrainInit /\ [][BrainNext]_vars

(***************************************************************************)
(* Agartha job workflow: the graph nodes and the feed loop                 *)
(***************************************************************************)
MaxRuns == 2

\* sifter_node, line 65; the bracketed entry holds the entry 'for hire'
NEGATIVE_KEYWORDS ==
    <<"for hire", "looking for", "seeking", "available for", "hiring me">>

PrefilterThreshold == 40

CriticThreshold == 6

\* what analyze_job can answer for one job: a score, with or without the
\* bid_draft key (only score and reasoning are ensured)
BrainAnalyses ==
    { [score |-> 5, bid_draft |-> TRUE],
      [score |-> 6, bid_draft |-> TRUE],
      [score |-> 6, bid_draft |-> FALSE] }

\* what critique_decision can answer for one job
Critiques ==
    { [valid |-> TRUE, refined_score |-> 3],
      [valid |-> FALSE, refined_score |-> 3] }

Ids(jobs) == [k \in 1..Len(jobs) |-> jobs[k].id]

IdSet(jobs) == {jobs[k].id : k \in 1..Len(jobs)}

job_text(job) == job.title \o job.description

\* any(neg in title_lower for neg in NEGATIVE_KEYWORDS)
has_negative_keyword(job) ==
    \E n \in 1..Len(NEGATIVE_KEYWORDS) :
        Contains(Lower(job.title), NEGATIVE_KEYWORDS[n])

\* the loop body of memory_guard_node: garbage is skipped, a score below
\* 4.0 is skipped
guard_passes(job) ==
    /\ ~is_garbage(job_text(job))
    /\ ~(calculate_score(job_text(job), EmptyDict) < PrefilterThreshold)

\* job['evidence_score'] = score
with_evidence_score(job) ==
    [job EXCEPT !.evidence_score = calculate_score(job_text(job), EmptyDict)]

\* faulty variant: the critic approves whatever the Brain analysed
critic_loop_all(jobs, critiques) == jobs

\* the loop of critic_node
RECURSIVE critic_loop(_, _)
critic_loop(jobs, critiques) ==
    IF jobs = <<>> THEN <<>>
    ELSE LET job == Head(jobs)
             critique == Head(critiques)
             rest == critic_loop(Tail(jobs), Tail(critiques))
         IN  IF job.score >= CriticThreshold /\ critique.valid
             THEN <<[job EXCEPT !.score = critique.refined_score]>> \o rest
             ELSE rest

\* the job dicts are shared between the lists of the state: the critic's
\* job['score'] = refined_score shows in analyzed_jobs too
critic_in_place(jobs, critiques) ==
    [k \in 1..Len(jobs) |->
       IF jobs[k].score >= CriticThreshold /\ critiques[k].valid
       THEN [jobs[k] EXCEPT !.score = critiques[k].refined_score]
       ELSE jobs[k]]

\* likewise job['evidence_score'] = score shows in every list that holds the
\* job; a garbage job is skipped before the assignment
guard_in_place(jobs, relevant) ==
    [k \in 1..Len(jobs) |->
       IF jobs[k].id \in IdSet(relevant) /\ ~is_garbage(job_text(jobs[k]))
       THEN with_evidence_score(jobs[k])
       ELSE jobs[k]]

\* the alerts notify_node sends before job['bid_draft'] raises KeyError
RECURSIVE alerts_sent(_)
alerts_sent(jobs) ==
    IF jobs = <<>> \/ ~Head(jobs).bid_draft THEN <<>>
    ELSE <<Head(jobs).id>> \o alerts_sent(Tail(jobs))

FlowInit ==
    /\ PipeInit
    /\ gText = <<>>
    /\ gOut = NoGuardCall
    /\ brain = NewBrain
    /\ \E available \in BOOLEAN : flow = [NoFlow EXCEPT !.available = available]
    /\ caller = NoCaller
    /\ gem = NoGem

FlowFrame ==
    UNCHANGED <<disk, now, pc, mem, run, writers, lastWriter, loadFailures,
                gText, gOut, brain, caller, gem>>

\* job_checker, lines 93-102: app.invoke with a copy of seen_ids
FeedRunBegin ==
    /\ flow.node = "idle"
    /\ flow.runs < MaxRuns
    /\ flow' = [flow EXCEPT
                  !.node = "scout", !.trace = <<>>,
                  !.state_seen_ids = flow.seen_ids,
                  !.fetched_jobs = <<>>, !.relevant_jobs = <<>>,
                  !.filtered_jobs = <<>>, !.analyzed_jobs = <<>>,
                  !.approved_jobs = <<>>, !.learned = <<>>, !.alerted = <<>>,
                  !.runs = flow.runs + 1]
    /\ FlowFrame

ScoutNode ==
    /\ flow.node = "scout"
    /\ \E jobs \in Feeds :
          flow' = [flow EXCEPT
                     !.node = "sifter",
                     !.trace = Append(flow.trace, "scout"),
                     !.fetched_jobs = jobs]
    /\ FlowFrame

\* sifter_node and should_continue_after_sifter
SifterNode ==
    /\ flow.node = "sifter"
    /\ LET new_relevant ==
               SelectSeq(flow.fetched_jobs,
                         LAMBDA job : /\ job.id \notin flow.state_seen_ids
                                      /\ ~has_negative_keyword(job))
       IN  flow' = [flow EXCEPT
                      !.node = IF new_relevant = <<>> THEN "end"
                               ELSE "memory_guard",
                      !.trace = Append(flow.trace, "sifter"),
                      !.relevant_jobs = new_relevant]
    /\ FlowFrame

\* memory_guard_node and should_continue_after_guard
MemoryGuardNode ==
    /\ flow.node = "memory_guard"
    /\ LET jobs == flow.relevant_jobs
           scored == guard_in_place(jobs, jobs)
           filtered == IF ~flow.available THEN jobs
                       ELSE SelectSeq(scored, guard_passes)
       IN  flow' = [flow EXCEPT
                      !.node = IF filtered = <<>> THEN "end" ELSE "brain",
                      !.trace = Append(flow.trace, "memory_guard"),
                      !.fetched_jobs =
                          IF ~flow.available THEN flow.fetched_jobs
                          ELSE guard_in_place(flow.fetched_jobs, jobs),
                      !.relevant_jobs =
                          IF ~flow.available THEN jobs ELSE scored,
                      !.filtered_jobs = filtered]
    /\ FlowFrame

\* brain_node: analyze_job for every filtered job, merged into the job
BrainNode ==
    /\ flow.node = "brain"
    /\ \E analysis \in [1..Len(flow.filtered_jobs) -> BrainAnalyses] :
          flow' = [flow EXCEPT
                     !.node = "critic",
                     !.trace = Append(flow.trace, "brain"),
                     !.analyzed_jobs =
                         [k \in 1..Len(flow.filtered_jobs) |->
                            [flow.filtered_jobs[k] EXCEPT
                               !.score = analysis[k].score,
                               !.bid_draft = analysis[k].bid_draft]],
                     !.brain_runs =
                         [id \in JobIds |->
                            flow.brain_runs[id]
                              + (IF id \in IdSet(flow.filtered_jobs)
                                 THEN 1 ELSE 0)]]
    /\ FlowFrame

CriticNode ==
    /\ flow.node = "critic"
    /\ \E critiques \in [1..Len(flow.analyzed_jobs) -> Critiques] :
          flow' = [flow EXCEPT
                     !.node = "memory_save",
                     !.trace = Append(flow.trace, "critic"),
                     !.analyzed_jobs =
                         critic_in_place(flow.analyzed_jobs, critiques),
                     !.approved_jobs =
                         critic_loop(flow.analyzed_jobs, critiques)]
    /\ FlowFrame

\* memory_save_node: skipped without Archivarius; else arch.learn for each
\* approved job, and a learn that raises ends the run
MemorySaveNode ==
    /\ flow.node = "memory_save"
    /\ \/ flow' = [flow EXCEPT
                     !.node = "notify",
                     !.trace = Append(flow.trace, "memory_save"),
                     !.learned = IF flow.available
                                 THEN Ids(flow.approved_jobs) ELSE <<>>]
       \/ /\ flow.available
          /\ \E n \in 1..Len(flow.approved_jobs) :
                flow' = [flow EXCEPT
                           !.node = "raised",
                           !.trace = Append(flow.trace, "memory_save"),
                           !.learned = SubSeq(Ids(flow.approved_jobs), 1, n)]
    /\ FlowFrame

\* notify_node: one alert per approved job; a job without bid_draft raises
NotifyNode ==
    /\ flow.node = "notify"
    /\ LET sent == alerts_sent(flow.approved_jobs)
       IN  flow' = [flow EXCEPT
                      !.node = IF Len(sent) < Len(flow.approved_jobs)
                               THEN "raised" ELSE "end",
                      !.trace = Append(flow.trace, "notify"),
                      !.alerted = sent,
                      !.alert_runs =
                          [id \in JobIds |->
                             flow.alert_runs[id]
                               + (IF \E k \in 1..Len(sent) : sent[k] = id
                                  THEN 1 ELSE 0)]]
    /\ FlowFrame

\* job_checker, lines 104-125: every fetched id joins seen_ids
FeedRunEnd ==
    /\ flow.node = "end"
    /\ flow' = [flow EXCEPT
                  !.node = "idle",
                  !.seen_ids = flow.seen_ids \cup IdSet(flow.fetched_jobs)]
    /\ FlowFrame

\* job_checker, lines 127-128: the exception is printed, seen_ids is left
FeedRunFailed ==
    /\ flow.node = "raised"
    /\ flow' = [flow EXCEPT !.node = "idle",
                             !.raised_runs = flow.raised_runs + 1]
    /\ FlowFrame

FlowNext ==
    \/ FeedRunBegin
    \/ ScoutNode
    \/ SifterNode
    \/ MemoryGuardNode
    \/ BrainNode
    \/ CriticNode
    \/ MemorySaveNode
    \/ NotifyNode
    \/ FeedRunEnd
    \/ FeedRunFailed

FlowSpec == FlowInit /\ [][FlowNext]_vars

(***************************************************************************)
(* A caller of learn that reuses its metadata mapping                      *)
(***************************************************************************)
MaxCalls == 3

InsertOutcomes == {"ok", "embedding_error", "save_error"}

\* the pipeline as the constructor leaves it: the sentinel in memory and on
\* disk; the caller holds any of the metadata dicts
CallerInit ==
    /\ disk = [exists |-> TRUE, docs |-> <<dummy_doc(0)>>]
    /\ now = 1
    /\ pc = [i \in Inst |-> IF i = 1 THEN "ready" ELSE "new"]
    /\ mem = [i \in Inst |-> IF i = 1 THEN <<dummy_doc(0)>> ELSE <<>>]
    /\ run = [i \in Inst |-> IdleRun]
    /\ writers = {1}
    /\ lastWriter = 1
    /\ loadFailures = 0
    /\ gText = <<>>
    /\ gOut = NoGuardCall
    /\ brain = NewBrain
    /\ flow = NoFlow
    /\ gem = NoGem
    /\ \E d \in CallerDicts : caller = [NoCaller EXCEPT !.metadata = d]

\* one whole call learn(text, metadata) of instance 1, lines 238-290; passed
\* says whether the caller handed over its mapping or nothing (None, for
\* which line 239 makes a fresh dict)
CallerLearn(passed) ==
    /\ caller.calls < MaxCalls
    /\ \E text \in Candidates, outcome \in BackendOutcomes,
          insert \in InsertOutcomes :
          LET metadata == IF passed = "mapping" THEN caller.metadata
                          ELSE EmptyDict
              to_think == after_blacklist(is_garbage(text))
              to_score == after_think(deep_think(outcome))
              score == calculate_score(text, metadata)
              to_commit == after_score(score)
              verdict == IF to_think = "done" THEN "blacklist"
                         ELSE IF to_score = "done" THEN "noise"
                         ELSE IF to_commit = "done" THEN "low_score"
                         ELSE IF insert = "ok" THEN "accepted"
                         ELSE insert
              committing == verdict \in {"accepted"} \cup InsertOutcomes
              stamped == stamp(metadata)
              vectorstore ==
                  Append(mem[1], make_doc(text, stamped, score, now))
          IN  /\ committing \/ insert = "ok"
              /\ caller' =
                   [metadata |-> IF committing /\ passed = "mapping"
                                 THEN stamped ELSE caller.metadata,
                    calls |-> caller.calls + 1,
                    commits |-> caller.commits
                                 + (IF committing /\ passed = "mapping"
                                    THEN 1 ELSE 0),
                    last |-> [text |-> text, passed |-> passed,
                              before |-> caller.metadata,
                              ret |-> IF ~committing THEN "False"
                                      ELSE IF verdict = "accepted" THEN "True"
                                      ELSE IF verdict = "save_error"
                                           THEN on_save_error
                                      ELSE on_embedding_error,
                              verdict |-> verdict]]
              /\ mem' = IF verdict \in {"accepted", "save_error"}
                        THEN [mem EXCEPT ![1] = vectorstore] ELSE mem
              /\ disk' = IF verdict = "accepted"
                         THEN save_local(vectorstore, disk) ELSE disk
              /\ now' = IF verdict \in {"accepted", "save_error"}
                        THEN now + 1 ELSE now
    /\ UNCHANGED <<pc, run, writers, lastWriter, loadFailures, gText, gOut,
                   brain, flow, gem>>

CallerNext == CallerLearn("mapping") \/ CallerLearn("nothing")

CallerSpec == CallerInit /\ [][CallerNext]_vars

(***************************************************************************)
(* get_embedding (core/gemini_client.py) and its caller add_card           *)
(***************************************************************************)
MaxRetries == 3

RetryDelay == 2

\* the phrases the except branch looks for in str(e).lower(); an error
\* message is the set of those it contains
Phrases == {"rate limit", "quota", "api key", "authentication"}

Messages == SUBSET Phrases

\* how one genai.embed_content call can end: a result with an embedding, a
\* result without one (line 62 then raises ValueError, whose message holds
\* none of the phrases), or an exception with some message
ApiOutcomes ==
    {[kind |-> "embedding", message |-> {}],
     [kind |-> "no_embedding", message |-> {}]}
      \cup {[kind |-> "raised", message |-> msg] : msg \in Messages}

\* faulty variant: the authentication branch is missing
classify_no_auth(error_message) ==
    IF "rate limit" \in error_message \/ "quota" \in error_message
    THEN "rate_limit"
    ELSE "other"

\* lines 70, 81, 86: the branch of the except block
classify(error_message) ==
    IF "rate limit" \in error_message \/ "quota" \in error_message
    THEN "rate_limit"
    ELSE IF "api key" \in error_message \/ "authentication" \in error_message
         THEN "auth"
         ELSE "other"

\* lines 72 and 89: the sleep before the next attempt
wait_time(class, attempt) ==
    IF class = "rate_limit" THEN RetryDelay * (2 ^ attempt) ELSE RetryDelay

GemInit ==
    /\ PipeInit
    /\ gText = <<>>
    /\ gOut = NoGuardCall
    /\ brain = NewBrain
    /\ flow = NoFlow
    /\ caller = NoCaller
    /\ \E text_empty \in BOOLEAN, key \in BOOLEAN, max_retries \in 0..MaxRetries :
          gem = [NoGem EXCEPT !.text_empty = text_empty, !.key = key,
                              !.max_retries = max_retries]

GemFrame ==
    UNCHANGED <<disk, now, pc, mem, run, writers, lastWriter, loadFailures,
                gText, gOut, brain, flow, caller>>

\* lines 40-47: the two ValueErrors, else the loop starts
GemEnter ==
    /\ gem.pc = "idle"
    /\ gem' = IF ~gem.key \/ gem.text_empty
              THEN [gem EXCEPT !.pc = "raised", !.ret = "ValueError"]
              ELSE [gem EXCEPT !.pc = "loop", !.attempt = 0]
    /\ GemFrame

\* lines 49-93: one iteration, the API call and what follows it
GemAttempt ==
    /\ gem.pc = "loop"
    /\ gem.attempt < gem.max_retries
    /\ \E outcome \in ApiOutcomes :
          LET class == IF outcome.kind = "embedding" THEN "ok"
                       ELSE classify(outcome.message)
              retry == class \in {"rate_limit", "other"}
                         /\ gem.attempt < gem.max_retries - 1
          IN  gem' = [gem EXCEPT
                        !.calls = Append(@, outcome),
                        !.classes = Append(@, class),
                        !.pc = IF retry THEN "sleep" ELSE "returned",
                        !.sleeps = IF retry
                                   THEN Append(@, wait_time(class, gem.attempt))
                                   ELSE @,
                        !.ret = IF class = "ok" THEN "embedding"
                                ELSE IF retry THEN @ ELSE "None"]
    /\ GemFrame

\* time.sleep returns and continue takes the next value of the range
GemSleep ==
    /\ gem.pc = "sleep"
    /\ gem' = [gem EXCEPT !.pc = "loop", !.attempt = @ + 1]
    /\ GemFrame

\* line 95: the range is exhausted without a return (max_retries is 0)
GemLoopExit ==
    /\ gem.pc = "loop"
    /\ gem.attempt >= gem.max_retries
    /\ gem' = [gem EXCEPT !.pc = "returned", !.ret = "None"]
    /\ GemFrame

\* MemoryService.add_card, lines 109-113: no embedding, no card
AddCard ==
    /\ gem.pc = "returned"
    /\ gem' = [gem EXCEPT !.pc = "done",
                          !.card = IF gem.ret = "None" THEN "None"
                                   ELSE "continues"]
    /\ GemFrame

GemNext == GemEnter \/ GemAttempt \/ GemSleep \/ GemLoopExit \/ AddCard

GemSpec == GemInit /\ [][GemNext]_vars

\* the interpreter keeps executing the call: an API call that was made
\* returns or raises, and a sleep ends
GemFairSpec == GemSpec /\ WF_vars(GemNext)

(***************************************************************************)
(* Properties                                                              *)
(***************************************************************************)
Range(f) == {f[k] : k \in DOMAIN f}

StoredDocs == Range(disk.docs) \cup UNION {Range(mem[i]) : i \in Inst}

IsSentinelDoc(d) == d.metadata.source = "system"

FunnelOrder == <<"blacklist", "oracle", "score", "insert">>

IsPrefix(s, t) == Len(s) <= Len(t) /\ s = SubSeq(t, 1, Len(s))

\* C1: every record in the store (in memory or on disk) has score >= 7.0,
\* and a record enters a store only as the sentinel of a fresh index or by the
\* commit step of a learn whose text is not blacklisted, whose oracle answer
\* held RELEVANT (no backend failure) and whose evidence score is >= 7.0.
C1_AdmittedOnly ==
    /\ [](\A d \in StoredDocs : d.metadata.score >= 70)
    /\ [][\A d \in StoredDocs' \ StoredDocs :
            \/ IsSentinelDoc(d)
            \/ \E i \in Inst :
                  /\ pc[i] = "commit" /\ pc'[i] = "done"
                  /\ d = mem'[i][Len(mem'[i])]
                  /\ ~is_garbage(run[i].text)
                  /\ ~run[i].backend.raised
                  /\ Contains(StripUpper(run[i].backend.out), "RELEVANT")
                  /\ run[i].think_result = "RELEVANT"
                  /\ run[i].steps = <<"blacklist", "oracle", "score">>
                  /\ calculate_score(run[i].text, run[i].metadata) >= 70
                  /\ d.metadata.score = calculate_score(run[i].text, run[i].metadata)
         ]_vars

C1_Witness ==
    \E k \in 1..Len(disk.docs) :
        /\ ~IsSentinelDoc(disk.docs[k])
        /\ disk.docs[k].metadata.score = 70

\* C2: a learn of a blacklisted text ends at the blacklist check: it returns
\* False, its step changes neither the in-memory index nor the disk, and the
\* run makes no oracle call, no scoring and no insert, whatever the score of
\* the text would be.
C2_BlacklistShortCircuit ==
    /\ [](\A i \in Inst :
            (pc[i] # "guard" /\ is_garbage(run[i].text)) =>
                /\ pc[i] = "done"
                /\ run[i].ret = "False"
                /\ run[i].steps = <<"blacklist">>
                /\ run[i].backend = NoBackend)
    /\ [][\A i \in Inst :
            (pc[i] = "guard" /\ pc'[i] # "guard" /\ is_garbage(run[i].text)) =>
                /\ mem' = mem
                /\ disk' = disk
         ]_vars

C2_Witness ==
    \E i \in Inst :
        /\ pc[i] = "done"
        /\ is_garbage(run[i].text)
        /\ calculate_score(run[i].text, run[i].metadata) >= 70
        /\ run[i].ret = "False"
        /\ Len(mem[i]) = 1

\* C3: when the backend call raised, the oracle verdict is NOISE and the learn
\* is over with False and without an insert.
C3_FailClosed ==
    \A i \in Inst :
        run[i].backend.raised =>
            /\ run[i].think_result = "NOISE"
            /\ pc[i] = "done"
            /\ run[i].ret = "False"
            /\ run[i].steps = <<"blacklist", "oracle">>

C3_Witness ==
    \E i \in Inst :
        /\ run[i].backend.raised
        /\ calculate_score(run[i].text, run[i].metadata) >= 70
        /\ run[i].ret = "False"

\* C4: the steps of a learn run are a prefix of blacklist, oracle, score,
\* insert (each at most once, in this order); the oracle is called only for a
\* text that is not blacklisted, the score is computed only after RELEVANT,
\* and the insert happens only after the score passed.
C4_FunnelOrder ==
    \A i \in Inst :
        /\ IsPrefix(run[i].steps, FunnelOrder)
        /\ Len(run[i].steps) >= 2 => ~is_garbage(run[i].text)
        /\ Len(run[i].steps) >= 3 => run[i].think_result = "RELEVANT"
        /\ Len(run[i].steps) >= 4 => run[i].score >= 70
        /\ Len(run[i].steps) < 2 => run[i].backend = NoBackend
        /\ Len(run[i].steps) < 3 => run[i].score = -1

C4_Witness ==
    \E i \in Inst : run[i].steps = FunnelOrder

\* C5: learn returns True exactly when the run reached the insert, and the
\* step that returns True appends exactly one record to the instance's index
\* and leaves that record in the index on disk.
C5_AcceptedIsPersisted ==
    /\ [](\A i \in Inst :
            (pc[i] = "done" /\ run[i].verdict # "recall") =>
                /\ run[i].ret \in {"True", "False", "raised"}
                /\ run[i].ret = "True" <=> run[i].steps = FunnelOrder
                /\ run[i].ret = "True" <=> run[i].verdict = "accepted")
    /\ [][\A i \in Inst :
            (pc[i] # "done" /\ pc'[i] = "done" /\ run'[i].ret = "True") =>
                /\ Len(mem'[i]) = Len(mem[i]) + 1
                /\ SubSeq(mem'[i], 1, Len(mem[i])) = mem[i]
                /\ mem'[i][Len(mem'[i])].page_content
                      = sanitize_for_grpc(run[i].text)
                /\ disk'.exists
                /\ mem'[i][Len(mem'[i])] \in Range(disk'.docs)
                /\ \A j \in Inst \ {i} : mem'[j] = mem[j]
         ]_vars

C5_Witness ==
    \E i \in Inst :
        /\ pc[i] = "done"
        /\ run[i].ret = "True"
        /\ Len(mem[i]) = 2
        /\ mem[i][2] \in Range(disk.docs)
        /\ mem[i][2].page_content # run[i].text

C7_ScoreFormula ==
    (gOut.op = "calculate_score" /\ gText # None) =>
        LET tl == Lower(gText)
            domain == \E k \in DOMAIN trusted_domains :
                          Contains(tl, trusted_domains[k])
            code == Contains(gText, FENCE) \/ TerminalLog(gText)
            authority == \E k \in DOMAIN authority_names :
                             Contains(tl, authority_names[k])
            keyword == \E k \in DOMAIN relevance_keywords :
                           Contains(tl, relevance_keywords[k])
            sum == 50 + (IF domain THEN 20 ELSE 0) + (IF code THEN 15 ELSE 0)
                      + (IF authority THEN 20 ELSE 0)
                      + (IF keyword THEN 20 ELSE 0)
        IN  /\ gOut.score = (IF sum > 100 THEN 100 ELSE sum)
            /\ gOut.score >= 50
            /\ gOut.score <= 100

C7_Witness ==
    /\ gOut.op = "calculate_score"
    /\ Contains(Lower(gText), "github.com")
    /\ Contains(Lower(gText), "arxiv.org")
    /\ ~Contains(gText, "arxiv.org")
    /\ gOut.score = 90

\* C8: every record a learn inserted carries the tag #Priority_Alpha and
\* priority alpha, and its tags are the caller's tags followed by the stamp.
C8_TagStamping ==
    /\ [](\A d \in StoredDocs :
            ~IsSentinelDoc(d) =>
                /\ "tags" \in DOMAIN d.metadata
                /\ \E k \in DOMAIN d.metadata.tags :
                      d.metadata.tags[k] = "#Priority_Alpha"
                /\ d.metadata.priority = "alpha")
    /\ [][\A i \in Inst :
            (pc[i] = "commit" /\ pc'[i] = "done" /\ run'[i].ret = "True") =>
                LET d == mem'[i][Len(mem'[i])]
                    callerTags == IF "tags" \in DOMAIN run[i].metadata
                                  THEN run[i].metadata.tags ELSE <<>>
                IN  d.metadata.tags = Append(callerTags, "#Priority_Alpha")
         ]_vars

C8_Witness ==
    \E d \in Range(disk.docs) :
        /\ ~IsSentinelDoc(d)
        /\ d.metadata.tags = <<"job", "#Priority_Alpha">>
        /\ d.metadata.priority = "alpha"

\* C9: last write wins.  The index on disk is exactly the in-memory index of
\* the instance that persisted last; nothing another instance wrote before is
\* merged in: every step that changes the disk leaves on it the whole
\* in-memory index of the instance that took the step.  (The lost update
\* itself is the witness.)
C9_LastWriteWins ==
    /\ [](\/ lastWriter = 0
          \/ pc[lastWriter] = "create"
          \/ disk.docs = mem[lastWriter]
          \* later saves of that instance failed: its index is ahead
          \/ /\ Len(mem[lastWriter]) > Len(disk.docs)
             /\ IsPrefix(disk.docs, mem[lastWriter]))
    /\ [][disk' # disk =>
             /\ lastWriter' # 0
             /\ disk'.docs = mem'[lastWriter']]_vars

\* both instances loaded the same store, both learns returned True, and the
\* record of one of them is not in the index on disk
C9_Witness ==
    /\ loadFailures = 0
    /\ \A i \in Inst : pc[i] = "done" /\ run[i].ret = "True" /\ Len(mem[i]) = 2
    /\ mem[1][1] = mem[2][1]
    /\ \E i \in Inst : mem[i][2] \notin Range(disk.docs)

PersistedStays ==
    /\ \A k \in 1..Len(disk.docs) :
          ~IsSentinelDoc(disk.docs[k]) => disk.docs[k] \in Range(disk'.docs)
    /\ Len(disk'.docs) >= Len(disk.docs)

\* C10 as stated: no step ever removes or changes a persisted record that a
\* learn accepted, and the number of persisted records never decreases.
C10_Permanent == [][PersistedStays]_vars

\* C10 amended: the same, as long as at most one pipeline instance has ever
\* written the index and no construction fell back to a fresh store because
\* loading the existing index failed.
C10_PermanentSingleWriter ==
    [][(Cardinality(writers') <= 1 /\ loadFailures' = 0) => PersistedStays]_vars

C10_Witness ==
    /\ Cardinality(writers) = 1
    /\ loadFailures = 0
    /\ Len(disk.docs) = 2
    /\ \E i \in Inst :
          /\ i \notin writers
          /\ pc[i] = "done"
          /\ run[i].verdict = "recall"
          /\ mem[i] = disk.docs

\* C11: a constructor that finds an index loads exactly the persisted records
\* and writes nothing; one that finds none (or could not load it) ends with an
\* index of exactly one sentinel record, in memory and on disk; hence every
\* constructed store and every persisted index holds at least one record.
C11_LoadOrCreate ==
    /\ [](/\ \A i \in Inst :
               pc[i] \notin {"new", "create"} => Len(mem[i]) >= 1
          /\ disk.exists => Len(disk.docs) >= 1)
    /\ [][\A i \in Inst :
            /\ (pc[i] = "new" /\ pc'[i] = "ready") =>
                  /\ disk.exists
                  /\ mem'[i] = disk.docs
                  /\ disk' = disk
            /\ (pc[i] \in {"new", "ready"} /\ pc'[i] = "create") =>
                  /\ ~disk.exists \/ loadFailures' = loadFailures + 1
                  /\ disk' = disk
            /\ (pc[i] = "create" /\ pc'[i] = "ready") =>
                  /\ Len(mem'[i]) = 1
                  /\ IsSentinelDoc(mem'[i][1])
                  /\ disk'.exists
                  /\ disk'.docs = mem'[i]
         ]_vars

\* an instance that never wrote has loaded an index of two records
C11_Witness ==
    \E i \in Inst :
        /\ i \notin writers
        /\ pc[i] = "ready"
        /\ Len(mem[i]) = 2
        /\ mem[i] = disk.docs
        /\ Cardinality({k \in 1..2 : IsSentinelDoc(mem[i][k])}) = 1

C13_EmbeddingFailureRejects ==
    /\ [](\A i \in Inst :
            run[i].verdict = "embedding_error" =>
                /\ pc[i] = "done"
                /\ run[i].ret = "False")
    /\ [][\A i \in Inst :
            (pc[i] = "commit" /\ run'[i].verdict = "embedding_error") =>
                (mem' = mem /\ disk' = disk)
         ]_vars

\* the part of C13 the code keeps: the failed commit leaves the index in memory
\* and on disk as it was (no record without a vector)
C13_StoreUnchanged ==
    [][\A i \in Inst :
          (pc[i] = "commit" /\ run'[i].verdict = "embedding_error") =>
              (mem' = mem /\ disk' = disk /\ run'[i].steps = run[i].steps)
      ]_vars

C13_Witness ==
    \E i \in Inst :
        /\ pc[i] = "done"
        /\ run[i].verdict = "embedding_error"
        /\ run[i].ret = "raised"
        /\ run[i].score = 70

Rejections == {"blacklist", "noise", "low_score"}

NoStrongHit(text) ==
    LET tl == Lower(text)
    IN  /\ \A k \in DOMAIN trusted_domains : ~Contains(tl, trusted_domains[k])
        /\ \A k \in DOMAIN authority_names : ~Contains(tl, authority_names[k])
        /\ \A k \in DOMAIN relevance_keywords :
              ~Contains(tl, relevance_keywords[k])

\* C14: a learn that ends in a blacklist, noise or low-score rejection has
\* returned False (it did not raise) without an insert, and no step of a run
\* before its commit changes an index in memory or the index on disk; a text
\* without a trusted domain, authority name or keyword always ends this way.
C14_RejectionsAreValues ==
    /\ [](\A i \in Inst :
            /\ run[i].verdict \in Rejections =>
                  /\ pc[i] = "done"
                  /\ run[i].ret = "False"
                  /\ \A k \in DOMAIN run[i].steps : run[i].steps[k] # "insert"
            /\ (pc[i] = "done" /\ run[i].verdict # "recall"
                  /\ NoStrongHit(run[i].text)) =>
                  /\ run[i].verdict \in Rejections
                  /\ run[i].ret = "False")
    /\ [][\A i \in Inst :
            (pc[i] \in {"guard", "think", "score"} /\ pc'[i] # pc[i]) =>
                /\ mem' = mem
                /\ disk' = disk
                /\ pc'[i] = "done" => run'[i].verdict \in Rejections
         ]_vars

\* a RELEVANT text with a code fence only (6.5) was rejected while the index
\* on disk holds a record that the other instance got accepted
C14_Witness ==
    \E i \in Inst :
        /\ pc[i] = "done"
        /\ run[i].verdict = "low_score"
        /\ run[i].think_result = "RELEVANT"
        /\ run[i].score = 65
        /\ run[i].ret = "False"
        /\ Len(mem[i]) = 1
        /\ Len(disk.docs) = 2

Sentinels(index) == {k \in DOMAIN index : IsSentinelDoc(index[k])}

\* C15: when two constructors both find no index and both go on to create
\* one, neither fails, and after each creation, in whatever order they run,
\* the index on disk holds exactly one record, a sentinel; no persisted index
\* and no index in memory ever holds two sentinels.
C15_ConcurrentCreation ==
    /\ [](/\ \A i \in Inst : pc[i] # "failed"
          /\ disk.exists => Cardinality(Sentinels(disk.docs)) = 1
          /\ \A i \in Inst : Cardinality(Sentinels(mem[i])) <= 1)
    /\ [][\A i, j \in Inst :
            (i # j /\ pc[i] = "create" /\ pc'[i] = "ready"
               /\ (pc[j] = "create" \/ j \in writers)) =>
                /\ disk'.exists
                /\ Len(disk'.docs) = 1
                /\ IsSentinelDoc(disk'.docs[1])
                /\ pc'[j] = pc[j]
                /\ mem'[j] = mem[j]
         ]_vars

\* both instances found no index (no load was attempted and failed), both
\* created one, and the disk holds the single sentinel of the later creation
C15_Witness ==
    /\ loadFailures = 0
    /\ writers = Inst
    /\ \A i \in Inst : pc[i] = "ready" /\ Len(mem[i]) = 1
    /\ mem[1] # mem[2]
    /\ Len(disk.docs) = 1
    /\ IsSentinelDoc(disk.docs[1])
    /\ disk.docs = mem[lastWriter]

\* C16 as stated: every learn call reaches a terminal verdict: from the
\* moment learn is entered, the call eventually is over (True, False).
C16_LearnTerminates ==
    \A i \in Inst : (pc[i] = "guard") ~> (pc[i] = "done")

\* the call that never ends: the backend was called and learn waits
C16_Witness ==
    \E i \in Inst :
        /\ pc[i] = "blocked"
        /\ run[i].steps = <<"blacklist", "oracle">>
        /\ run[i].ret = "none"

\* the atoms that read "relevant" when case is ignored
RelevantAnyCase == {"RELEVANT", "relevant"}

\* C17: once the backend call of a run is over, the oracle verdict is RELEVANT
\* or NOISE and nothing else, and it is RELEVANT exactly when the call returned
\* normally and its output holds "relevant" in some spelling of case.
C17_VerdictMapping ==
    \A i \in Inst :
        run[i].backend # NoBackend =>
            /\ run[i].think_result \in {"RELEVANT", "NOISE"}
            /\ run[i].think_result = "RELEVANT" <=>
                  /\ ~run[i].backend.raised
                  /\ \E a \in RelevantAnyCase : Contains(run[i].backend.out, a)

\* a lower-case answer gave RELEVANT while an empty answer gave NOISE
C17_Witness ==
    \E i, j \in Inst :
        /\ run[i].backend = [raised |-> FALSE, out |-> Out_relevant]
        /\ run[i].think_result = "RELEVANT"
        /\ run[j].backend = [raised |-> FALSE, out |-> Out_Empty]
        /\ run[j].think_result = "NOISE"

\* C18 as stated: no call of is_garbage, calculate_score or evaluate raises,
\* and None and the empty string are not garbage and score 5.0.
C18_GuardCannotFail ==
    gOut.op # "none" =>
        /\ ~gOut.raised
        /\ gText \in {None, <<>>} =>
              /\ gOut.op = "is_garbage" => ~gOut.garbage
              /\ gOut.op = "calculate_score" => gOut.score = BaseScore
              /\ gOut.op = "evaluate" => (gOut.passed /\ gOut.score = BaseScore)

\* the part of C18 the code keeps: no call on a str raises, and the empty
\* string is not garbage and scores 5.0
C18_StringsCannotFail ==
    (gOut.op # "none" /\ gText # None) =>
        /\ ~gOut.raised
        /\ gText = <<>> =>
              /\ gOut.op = "is_garbage" => ~gOut.garbage
              /\ gOut.op = "calculate_score" => gOut.score = BaseScore
              /\ gOut.op = "evaluate" => (gOut.passed /\ gOut.score = BaseScore)

C18_Witness ==
    /\ gText = None
    /\ gOut.op = "evaluate"
    /\ gOut.raised

RecallStrings ==
    {"No relevant memories found.", "Error recalling memories", "memories"}

\* C19: a recall ends with one of its three strings (it does not raise) and
\* changes neither an index in memory nor the disk; it gives the sentinel
\* string exactly when the search found nothing, and otherwise one entry for
\* each of the min(k, size) nearest documents of the index, nearest first.
\* An index in memory or on disk changes only by a commit of learn or by a
\* construction, never by a step of recall.
C19_RecallReadsOnly ==
    /\ [](\A i \in Inst :
            run[i].verdict = "recall" =>
                /\ pc[i] = "done"
                /\ run[i].ret \in RecallStrings
                /\ run[i].ret = "memories" <=> run[i].recalled # <<>>
                /\ Len(run[i].recalled) <= run[i].k
                /\ \A n \in DOMAIN run[i].recalled :
                      /\ run[i].recalled[n].n = n
                      /\ \A m \in DOMAIN run[i].recalled :
                            n < m =>
                              distance(run[i].query, run[i].recalled[n].content)
                                <= distance(run[i].query,
                                            run[i].recalled[m].content))
    /\ [][\A i \in Inst :
            (pc[i] = "ready" /\ run'[i].verdict = "recall") =>
                /\ mem' = mem
                /\ disk' = disk
                /\ run'[i].ret # "Error recalling memories" =>
                      /\ Len(run'[i].recalled) = Min(run'[i].k, Len(mem[i]))
                      /\ \A n \in DOMAIN run'[i].recalled :
                            \E d \in Range(mem[i]) :
                               /\ run'[i].recalled[n].content
                                     = sanitize_for_grpc(d.page_content)
                               /\ run'[i].recalled[n].score = d.metadata.score
                               /\ run'[i].recalled[n].priority
                                     = d.metadata.priority
                /\ run'[i].ret = "No relevant memories found." =>
                      run'[i].k = 0
         ]_vars
    /\ [][/\ \A i \in Inst :
               mem'[i] # mem[i] =>
                 \/ (pc[i] = "commit" /\ pc'[i] = "done")
                 \/ (pc[i] \in {"new", "ready", "create"}
                       /\ pc'[i] \in {"ready", "create"})
          /\ disk' # disk =>
                \E i \in Inst : pc[i] \in {"commit", "create"} /\ pc'[i] # pc[i]
         ]_vars

\* the index holds the sentinel and then the record whose text is the query:
\* the record comes first, the sentinel second
C19_Witness ==
    \E i \in Inst :
        /\ pc[i] = "done"
        /\ run[i].ret = "memories"
        /\ run[i].k = 3
        /\ Len(run[i].recalled) = 2
        /\ IsSentinelDoc(mem[i][1])
        /\ run[i].recalled[1].content = mem[i][2].page_content
        /\ run[i].recalled[1].content = run[i].query
        /\ run[i].recalled[2].content = SentinelText
        /\ run[i].recalled[1].priority = "alpha"

\* C20: a retrieval of a BrainAgent without a loaded store (none found, or
\* the load failed) gives the empty string; so does one whose search raised
\* or found nothing; every other retrieval gives the contents of the
\* min(2, size) nearest documents, one line each; the store on disk is not
\* changed.
C20_RetrieveContextBestEffort ==
    /\ [](/\ brain.vectorstore.loaded =>
               (disk.exists /\ brain.vectorstore.docs = disk.docs)
          /\ Len(brain.out) <= 2
          /\ ~brain.vectorstore.loaded => brain.out = <<>>
          /\ brain.failed => brain.out = <<>>
          /\ brain.out # <<>> =>
               \A n \in DOMAIN brain.out :
                  \E d \in Range(brain.vectorstore.docs) :
                     brain.out[n] = sanitize_for_grpc(d.page_content))
    /\ [][/\ disk' = disk
          /\ (brain.pc = "ready" /\ brain.vectorstore.loaded
                /\ ~brain'.failed) =>
               Len(brain'.out) = Min(2, Len(brain.vectorstore.docs))
         ]_vars

\* an index of three documents was loaded and the retrieval gave two lines,
\* the document equal to the query first
C20_Witness ==
    /\ brain.vectorstore.loaded
    /\ Len(brain.vectorstore.docs) = 3
    /\ Len(brain.out) = 2
    /\ brain.out[1] = brain.query
    /\ brain.vectorstore.docs[1].page_content # brain.query

\* C21: with the Archivarius available, a job whose text is not garbage but
\* carries no evidence at all (no trusted domain, no code, no authority, no
\* keyword: the low-quality job) is stopped by the Memory Guard node: it is
\* never among the filtered jobs and never analysed by the Brain.
C21_LowQualityBlocked ==
    flow.available =>
        \A k \in 1..Len(flow.filtered_jobs) :
            calculate_score(job_text(flow.filtered_jobs[k]), EmptyDict)
                > BaseScore

\* the guard node has run on a low-quality job and the Brain has analysed it
C21_Witness ==
    /\ flow.available
    /\ "brain" \in Range(flow.trace)
    /\ Job_LowQ.id \in IdSet(flow.relevant_jobs)
    /\ Job_LowQ.id \in IdSet(flow.analyzed_jobs)

\* C21, the part of the pre-filter that works: with the Archivarius
\* available no garbage job is among the filtered jobs, and every filtered
\* job carries its evidence score.
C21_GarbageBlocked ==
    flow.available =>
        \A k \in 1..Len(flow.filtered_jobs) :
            /\ ~is_garbage(job_text(flow.filtered_jobs[k]))
            /\ flow.filtered_jobs[k].evidence_score
                 = calculate_score(job_text(flow.filtered_jobs[k]), EmptyDict)

\* C28: the sifter never places a job whose id is in seen_ids into
\* relevant_jobs, after a feed run that completes without exception every
\* fetched id is in seen_ids, and no job id is sent to the Brain or alerted
\* in more than one feed run of the process.
C28_NoRepeat ==
    /\ [](\A k \in 1..Len(flow.relevant_jobs) :
             flow.relevant_jobs[k].id \notin flow.state_seen_ids)
    /\ [][flow.node = "end" /\ flow'.node = "idle"
             => IdSet(flow.fetched_jobs) \subseteq flow'.seen_ids]_vars
    /\ [](\A id \in JobIds : flow.brain_runs[id] <= 1 /\ flow.alert_runs[id] <= 1)

\* one job id was analysed by the Brain and alerted in two feed runs
C28_Witness ==
    \E id \in JobIds : flow.brain_runs[id] = 2 /\ flow.alert_runs[id] = 2

\* C28, the two premises alone: the sifter drops every seen id, and a feed
\* run that completes without exception adds every fetched id to seen_ids.
C28_SifterAndSeen ==
    /\ [](\A k \in 1..Len(flow.relevant_jobs) :
             flow.relevant_jobs[k].id \notin flow.state_seen_ids)
    /\ [][flow.node = "end" /\ flow'.node = "idle"
             => IdSet(flow.fetched_jobs) \subseteq flow'.seen_ids]_vars

\* C28, the conclusion while no feed run has ended in the except branch of
\* job_checker: no id is analysed or alerted in two feed runs.
C28_NoRepeatWithoutException ==
    flow.raised_runs = 0 =>
        \A id \in JobIds : flow.brain_runs[id] <= 1 /\ flow.alert_runs[id] <= 1

WorkflowOrder ==
    <<"scout", "sifter", "memory_guard", "brain", "critic", "memory_save",
      "notify">>

\* C29: in each run the nodes execute in the order scout, sifter,
\* memory_guard, brain, critic, memory_save, notify; a run ends right after
\* the sifter exactly when relevant_jobs is empty and right after the guard
\* exactly when filtered_jobs is empty; the Brain analyses only jobs that
\* passed the sifter (new id, no negative keyword) and the Memory Guard; and
\* the approved jobs, the only ones memory_save and notify handle, are
\* analysed jobs whose Brain score was >= 6.
C29_WorkflowOrder ==
    /\ [](/\ IsPrefix(flow.trace, WorkflowOrder)
          /\ flow.node = "end" =>
                \/ flow.trace = SubSeq(WorkflowOrder, 1, 2)
                     /\ flow.relevant_jobs = <<>>
                \/ flow.trace = SubSeq(WorkflowOrder, 1, 3)
                     /\ flow.filtered_jobs = <<>>
                \/ flow.trace = WorkflowOrder
          /\ Len(flow.trace) > 2 => flow.relevant_jobs # <<>>
          /\ Len(flow.trace) > 3 => flow.filtered_jobs # <<>>
          /\ Ids(flow.analyzed_jobs) \in {<<>>, Ids(flow.filtered_jobs)}
          /\ IdSet(flow.filtered_jobs) \subseteq IdSet(flow.relevant_jobs)
          /\ IdSet(flow.relevant_jobs)
               \subseteq IdSet(flow.fetched_jobs) \ flow.state_seen_ids
          /\ \A k \in 1..Len(flow.relevant_jobs) :
                ~has_negative_keyword(flow.relevant_jobs[k])
          /\ flow.available =>
                \A k \in 1..Len(flow.filtered_jobs) :
                    guard_passes(flow.filtered_jobs[k])
          /\ Range(flow.learned) \subseteq IdSet(flow.approved_jobs)
          /\ Range(flow.alerted) \subseteq IdSet(flow.approved_jobs)
          /\ IdSet(flow.approved_jobs) \subseteq IdSet(flow.analyzed_jobs))
    /\ [][/\ flow'.approved_jobs # flow.approved_jobs
               => flow.node \in {"critic", "idle"}
          /\ flow.node = "critic" /\ flow'.node # "critic" =>
               \A k \in 1..Len(flow'.approved_jobs) :
                  \E j \in 1..Len(flow.analyzed_jobs) :
                     /\ flow.analyzed_jobs[j].id = flow'.approved_jobs[k].id
                     /\ flow.analyzed_jobs[j].score >= CriticThreshold]_vars

\* a run went through all seven nodes: the Brain analysed two jobs, the
\* critic approved one of them, and that one was saved and alerted
C29_Witness ==
    /\ flow.node = "end"
    /\ flow.trace = WorkflowOrder
    /\ flow.available
    /\ Len(flow.analyzed_jobs) = 2
    /\ Len(flow.approved_jobs) = 1
    /\ flow.learned = Ids(flow.approved_jobs)
    /\ flow.alerted = Ids(flow.approved_jobs)

ScoreValues == {50, 65, 70, 85, 90, 100}

LearnFinished(i) == pc[i] = "done" /\ run[i].verdict \notin {"none", "recall"}

\* the text is not blacklisted, the backend call returned an output that
\* holds RELEVANT once stripped and upper-cased, and a trusted domain, an
\* authority name or a relevance keyword occurs in the text
AcceptanceConditions(i) ==
    /\ ~is_garbage(run[i].text)
    /\ run[i].backend # NoBackend
    /\ ~run[i].backend.raised
    /\ Contains(StripUpper(run[i].backend.out), "RELEVANT")
    /\ ~NoStrongHit(run[i].text)

\* C24: calculate_score produces only 5.0, 6.5, 7.0, 8.5, 9.0 and 10.0, and a
\* finished learn has returned True exactly when its text is not blacklisted,
\* the oracle output contains RELEVANT and one of the three +2.0 categories
\* matches.
C24_AcceptanceIff ==
    \A i \in Inst :
        LearnFinished(i) =>
            /\ run[i].score >= 0 => run[i].score \in ScoreValues
            /\ run[i].ret = "True" <=> AcceptanceConditions(i)

\* C24 as the code has it: the scores are the six values; a finished learn
\* reached its commit exactly under the three conditions, and then it has
\* returned True exactly when the insert did not fail (else it has raised);
\* a text with no +2.0 category, the 6.5 text included, has returned False.
C24_AcceptanceIffInsertSucceeds ==
    /\ \A t \in Texts : calculate_score(t, EmptyDict) \in ScoreValues
    /\ \A v \in ScoreValues : \E t \in Texts : calculate_score(t, EmptyDict) = v
    /\ [](\A i \in Inst :
            LearnFinished(i) =>
                /\ run[i].score >= 0 => run[i].score \in ScoreValues
                /\ run[i].ret \in {"True", "raised"} <=> AcceptanceConditions(i)
                /\ run[i].ret = "True" <=>
                      (AcceptanceConditions(i) /\ run[i].verdict = "accepted")
                /\ run[i].ret = "True" => run[i].steps = FunnelOrder
                /\ NoStrongHit(run[i].text) => run[i].ret = "False"
                /\ run[i].score = 65 => run[i].verdict = "low_score")

\* the three conditions hold, the insert failed, and learn did not return True
C24_Witness ==
    \E i, j \in Inst :
        /\ LearnFinished(i) /\ AcceptanceConditions(i) /\ run[i].ret # "True"
        /\ LearnFinished(j) /\ AcceptanceConditions(j) /\ run[j].ret = "True"
        /\ run[j].score = 70

\* only instance i has been constructed in this process
SingleInstance(i) == \A j \in Inst \ {i} : pc[j] = "new"

\* C25: for a single pipeline instance, whenever a learn call has finished
\* (returned True, returned False or raised because persisting failed) the
\* index in memory and the persisted index hold the same records.
C25_WriteThrough ==
    \A i \in Inst :
        (SingleInstance(i) /\ LearnFinished(i)) =>
            Range(mem[i]) = Range(disk.docs)

\* a single instance whose learn raised in save_local: the record is in the
\* index in memory, visible to recall, and not on disk
C25_Witness ==
    \E i \in Inst :
        /\ SingleInstance(i)
        /\ LearnFinished(i)
        /\ run[i].verdict = "save_error"
        /\ run[i].ret = "raised"
        /\ Len(mem[i]) = 2
        /\ Len(disk.docs) = 1
        /\ mem[i][2] \notin Range(disk.docs)

\* C25, the part that holds: for a single instance, a finished learn whose
\* save_local did not fail leaves the index in memory equal to the persisted
\* one.
C25_WriteThroughUnlessSaveFails ==
    \A i \in Inst :
        (SingleInstance(i) /\ LearnFinished(i)
           /\ run[i].verdict # "save_error") =>
            mem[i] = disk.docs

PipelineKeys == {"score", "timestamp", "source", "priority"}

\* C26: in the record a learn inserts, score, timestamp and source are the
\* pipeline's values and priority is "alpha", whatever the caller supplied
\* under those keys, and every other caller-supplied field is stored
\* unchanged.
C26_MetadataPrecedence ==
    [][\A i \in Inst :
          (pc[i] = "commit" /\ run'[i].ret = "True") =>
              LET given == run[i].metadata
                  stored == mem'[i][Len(mem'[i])].metadata
              IN  /\ stored.score = calculate_score(run[i].text, given)
                  /\ stored.timestamp = now
                  /\ stored.source = "archivarius"
                  /\ stored.priority = "alpha"
                  /\ \A key \in DOMAIN given \ PipelineKeys :
                        stored[key] = given[key]
      ]_vars

\* C26 as the code has it: the same, except that the caller's tags are not
\* stored unchanged either: the stored tags are the caller's (none when it
\* gave none) followed by the priority tag; the stored keys are the caller's
\* and those five.
C26_MetadataPrecedenceExceptTags ==
    [][\A i \in Inst :
          (pc[i] = "commit" /\ run'[i].ret = "True") =>
              LET given == run[i].metadata
                  stored == mem'[i][Len(mem'[i])].metadata
              IN  /\ stored.score = calculate_score(run[i].text, given)
                  /\ stored.timestamp = now
                  /\ stored.source = "archivarius"
                  /\ stored.priority = "alpha"
                  /\ stored.tags = Get(given, "tags", <<>>) \o <<PriorityTag>>
                  /\ DOMAIN stored
                        = DOMAIN given \cup PipelineKeys \cup {"tags"}
                  /\ \A key \in DOMAIN given \ (PipelineKeys \cup {"tags"}) :
                        stored[key] = given[key]
                  /\ mem'[i][Len(mem'[i])] \in Range(disk'.docs)
      ]_vars

\* the caller gave its own score, timestamp, source, priority, tags and type:
\* the stored record has the pipeline's four values, the caller's type, and
\* the caller's tags with the priority tag added
C26_Witness ==
    \E d \in Range(disk.docs) :
        /\ d.page_content = Text_Arxiv
        /\ DOMAIN d.metadata = DOMAIN Meta_Job
        /\ d.metadata.score = 70
        /\ d.metadata.score # Meta_Job.score
        /\ d.metadata.source = "archivarius"
        /\ d.metadata.timestamp # Meta_Job.timestamp
        /\ d.metadata.priority = "alpha"
        /\ d.metadata.type = Meta_Job.type
        /\ d.metadata.tags # Meta_Job.tags

\* the number of priority tags in a tags list
RECURSIVE CountTag(_)
CountTag(tags) ==
    IF tags = <<>> THEN 0
    ELSE (IF Head(tags) = PriorityTag THEN 1 ELSE 0) + CountTag(Tail(tags))

\* C27: a learn that is rejected leaves the caller's metadata mapping as it
\* was; a learn that reaches the commit step sets priority to "alpha" in the
\* caller's mapping and appends exactly one priority tag to its tags, leaving
\* every other key; so a mapping handed to n committing calls carries n
\* priority tags.  A call without metadata never touches the mapping.
C27_CallerMappingEffect ==
    /\ [](LET after == caller.metadata
              before == caller.last.before
              tags == Get(after, "tags", <<>>)
          IN  /\ CountTag(tags) = caller.commits
              /\ caller.last.ret = "False" => after = before
              /\ caller.last.passed = "nothing" => after = before
              /\ (caller.last.passed = "mapping"
                    /\ caller.last.verdict \in {"accepted"} \cup InsertOutcomes)
                 => /\ after.priority = "alpha"
                    /\ after.tags = Get(before, "tags", <<>>) \o <<PriorityTag>>
                    /\ DOMAIN after = DOMAIN before \cup {"tags", "priority"}
                    /\ \A key \in DOMAIN before \ {"tags", "priority"} :
                          after[key] = before[key])
    /\ [][caller'.commits # caller.commits
            => /\ caller'.commits = caller.commits + 1
               /\ caller'.last.verdict \in {"accepted"} \cup InsertOutcomes
         ]_vars

\* the mapping went through three committing calls, a rejected call never
\* counted: it carries three priority tags after the caller's own tag
C27_Witness ==
    /\ caller.calls = 3
    /\ caller.commits = 3
    /\ caller.last.ret = "True"
    /\ caller.metadata.tags = <<"job", PriorityTag, PriorityTag, PriorityTag>>
    /\ caller.metadata.priority = "alpha"
    /\ Len(mem[1]) = 4

Last(s) == s[Len(s)]

\* the call gave an embedding
Succeeded(outcome) == outcome.kind = "embedding"

\* the call raised, and the message names the API key or authentication and
\* neither a rate limit nor a quota
AuthError(outcome) ==
    /\ outcome.kind = "raised"
    /\ "api key" \in outcome.message \/ "authentication" \in outcome.message
    /\ "rate limit" \notin outcome.message
    /\ "quota" \notin outcome.message

\* C30: for a non-empty text with a configured key, get_embedding makes at
\* most max_retries API calls; a call that gives an embedding is the last one
\* and its embedding is returned; a call that ends in an authentication error
\* is the last one and None is returned; it never raises; when the attempts
\* are used up it returns None; add_card then returns None without a card;
\* and every call of get_embedding comes to its end.
C30_BoundedRetry ==
    /\ []((gem.key /\ ~gem.text_empty) =>
            /\ Len(gem.calls) <= gem.max_retries
            /\ Len(gem.classes) = Len(gem.calls)
            /\ gem.pc # "raised"
            /\ \A n \in 1..Len(gem.calls) :
                  (Succeeded(gem.calls[n]) \/ AuthError(gem.calls[n]))
                     => n = Len(gem.calls)
            /\ (gem.calls # <<>>
                  /\ (Succeeded(Last(gem.calls)) \/ AuthError(Last(gem.calls))))
                  => gem.pc \in {"returned", "done"}
            /\ gem.pc \in {"returned", "done"} =>
                  /\ gem.ret \in {"embedding", "None"}
                  /\ gem.ret = "embedding" <=>
                        (gem.calls # <<>> /\ Succeeded(Last(gem.calls)))
                  /\ gem.ret = "None" =>
                        \/ Len(gem.calls) = gem.max_retries
                        \/ AuthError(Last(gem.calls))
            /\ gem.pc = "sleep" => Len(gem.classes) < gem.max_retries
            /\ Len(gem.sleeps) <= Len(gem.classes)
            /\ gem.pc = "done" => (gem.card = "None" <=> gem.ret = "None"))
    /\ <>(gem.pc \in {"done", "raised"})

\* three attempts, an error and two rate limits: two sleeps, the second with
\* the backoff of attempt 1; then None and no card
C30_Witness ==
    /\ gem.key /\ ~gem.text_empty
    /\ gem.max_retries = 3
    /\ gem.classes = <<"other", "rate_limit", "rate_limit">>
    /\ gem.sleeps = <<RetryDelay, 2 * RetryDelay>>
    /\ gem.ret = "None"
    /\ gem.pc = "done"
    /\ gem.card = "None"

====
